---- MODULE Spec2Model ----
(***************************************************************************)
(* The OpenADAS rate repository of cherab: the PEC section                 *)
(* (repository/pec.py) and the beam emission section                       *)
(* (repository/beam/emission.py).  A document is one JSON file per         *)
(* address; update_* read-modify-write documents, get_* read them.         *)
(***************************************************************************)
EXTENDS Integers, Sequences, FiniteSets

(***************************************************************************)
(* Bounds of the model.                                                    *)
(***************************************************************************)
\* the longest axis of a supplied rate record
MaxLen == 2
\* the number of addresses one update request holds
MaxAddresses == 2

(***************************************************************************)
(* numpy arrays and their list form.                                       *)
(* An array is [shape, data]: data is the row-major sequence of values.    *)
(* A python nested list (what tolist() gives, what json stores) is the     *)
(* sequence of its tokens: OPEN, CLOSE and the numbers (all >= 0).         *)
(***************************************************************************)
OPEN == 0 - 1
CLOSE == 0 - 2

RECURSIVE Prod(_)
Prod(shape) == IF shape = <<>> THEN 1 ELSE Head(shape) * Prod(Tail(shape))

RECURSIVE Concat(_)
Concat(seqs) == IF seqs = <<>> THEN <<>> ELSE Head(seqs) \o Concat(Tail(seqs))

\* an array of the given shape whose k-th value is base + k
MkArray(shape, base) ==
    [shape |-> shape, data |-> [k \in 1..Prod(shape) |-> base + k]]

ndim(a) == Len(a.shape)

\* ndarray.tolist(): nested lists, one level per dimension
RECURSIVE ListTokens(_, _)
ListTokens(shape, data) ==
    IF shape = <<>> THEN <<data[1]>>
    ELSE LET n == Head(shape)
             w == Prod(Tail(shape))
         IN  <<OPEN>>
             \o Concat([i \in 1..n |->
                    ListTokens(Tail(shape), SubSeq(data, (i - 1) * w + 1, i * w))])
             \o <<CLOSE>>

tolist(a) == ListTokens(a.shape, a.data)

\* the end of the value that starts at token i of toks
RECURSIVE ValueEnd(_, _, _)
ValueEnd(toks, i, depth) ==
    LET d == IF toks[i] = OPEN THEN depth + 1
             ELSE IF toks[i] = CLOSE THEN depth - 1 ELSE depth
    IN  IF d = 0 THEN i ELSE ValueEnd(toks, i + 1, d)

\* the number of items of the list whose first item would start at token i
RECURSIVE CountItems(_, _)
CountItems(toks, i) ==
    IF toks[i] = CLOSE THEN 0
    ELSE 1 + CountItems(toks, ValueEnd(toks, i, 0) + 1)

\* the shape numpy infers from a nested list: one dimension per level of
\* nesting met along the first items; an empty list ends the descent
RECURSIVE InferShape(_, _)
InferShape(toks, i) ==
    IF toks[i] # OPEN THEN <<>>
    ELSE LET n == CountItems(toks, i + 1)
         IN  IF n = 0 THEN <<0>> ELSE <<n>> \o InferShape(toks, i + 1)

\* np.array(nested list, np.float64)
np_array(toks) ==
    [shape |-> InferShape(toks, 1),
     data  |-> SelectSeq(toks, LAMBDA x : x >= 0)]

(***************************************************************************)
(* Species, charges, transitions: the inputs of the calls.                 *)
(***************************************************************************)
\* an Element object, and an object that is no Element (a plain string)
Hydrogen == [type |-> "Element", symbol |-> "H", atomic_number |-> 1]
NotAnElement == [type |-> "str", symbol |-> "", atomic_number |-> 0]

Species == {Hydrogen, NotAnElement}

isinstance_Element(obj) == obj.type = "Element"

\* the charges tried for a species: from below zero to above its atomic number
Charges == (0 - 1) .. (Hydrogen.atomic_number + 1)

\* the charges tried for a donor: a donor of charge -1 passes the check of the
\* update (its charge + 1 is 0) and is left out
DonorCharges == 0 .. (Hydrogen.atomic_number + 1)

\* str.lower() on the strings that occur
lower(s) ==
    CASE s = "H" -> "h"
      [] s = "Excitation" -> "excitation"
      [] s = "Recombination" -> "recombination"
      [] OTHER -> s

\* '{}'.format(charge)
format_int(c) ==
    CASE c = 0 - 2 -> "-2" [] c = 0 - 1 -> "-1" [] c = 0 -> "0" [] c = 1 -> "1"
      [] c = 2 -> "2" [] c = 3 -> "3" [] OTHER -> "4"

\* utility.valid_charge: 0 <= charge <= atomic number
valid_charge(element, charge) ==
    /\ charge >= 0
    /\ charge <= element.atomic_number

Transitions == {<<2, 1>>, <<3, 2>>}

\* utility.encode_transition: the JSON key of a transition (injective)
encode_transition(transition) ==
    CASE transition = <<2, 1>> -> "2 -> 1"
      [] transition = <<3, 2>> -> "3 -> 2"
      [] OTHER -> "?"

\* the keys in lexicographic order, as sort_keys compares them
KeyOrder == <<"2 -> 1", "3 -> 2", "?">>
KeyRank(key) == CHOOSE i \in 1..Len(KeyOrder) : KeyOrder[i] = key

(***************************************************************************)
(* The rate classes and the part of the repository each owns.              *)
(***************************************************************************)
Sections == {"excitation", "recombination", "thermal_cx", "beam_emission"}

valid_classes == {"excitation", "recombination"}

\* the class keys a request of update_pec_rates is tried with
ClassKeys(section) ==
    IF section = "excitation" THEN {"excitation", "Excitation", "ionisation"}
    ELSE {"recombination", "Recombination", "ionisation"}

\* pec/<class>/<element>/<charge>.json
PecPath(cls, element, charge) ==
    <<"pec", cls, lower(element.symbol), format_int(charge)>>

\* pec/thermal_cx/<donor>/<donor charge>/<receiver>/<receiver charge>.json
ThermalCxPath(donor_element, donor_charge, receiver_element, receiver_charge) ==
    <<"pec", "thermal_cx", lower(donor_element.symbol), format_int(donor_charge),
      lower(receiver_element.symbol), format_int(receiver_charge)>>

\* beam/emission/<beam species>/<target ion>/<target charge>.json
BeamPath(beam_species, target_ion, target_charge) ==
    <<"beam", "emission", lower(beam_species.symbol), lower(target_ion.symbol),
      format_int(target_charge)>>

\* os.path.dirname
dirname(path) == SubSeq(path, 1, Len(path) - 1)

(***************************************************************************)
(* Rate records as supplied (arrays), and as stored (lists of floats).     *)
(***************************************************************************)
\* excitation / recombination: ne (N), te (K), rate (N, K)
PecPayloads ==
    { \* well-shaped
      [ne |-> MkArray(<<MaxLen>>, 10), te |-> MkArray(<<1>>, 20),
       rate |-> MkArray(<<MaxLen, 1>>, 30)],
      \* well-shaped, the density axis is empty
      [ne |-> MkArray(<<0>>, 10), te |-> MkArray(<<MaxLen>>, 20),
       rate |-> MkArray(<<0, MaxLen>>, 30)],
      \* the rate table is transposed
      [ne |-> MkArray(<<MaxLen>>, 10), te |-> MkArray(<<1>>, 20),
       rate |-> MkArray(<<1, MaxLen>>, 30)],
      \* the density axis is 2-D
      [ne |-> MkArray(<<MaxLen, 1>>, 10), te |-> MkArray(<<1>>, 20),
       rate |-> MkArray(<<MaxLen, 1>>, 30)] }

\* thermal charge exchange: ne (N), te (K), td (L), rate (N, K, L)
ThermalCxPayloads ==
    { [ne |-> MkArray(<<MaxLen>>, 10), te |-> MkArray(<<1>>, 20),
       td |-> MkArray(<<1>>, 40), rate |-> MkArray(<<MaxLen, 1, 1>>, 30)],
      \* well-shaped, the temperature axis is empty
      [ne |-> MkArray(<<MaxLen>>, 10), te |-> MkArray(<<0>>, 20),
       td |-> MkArray(<<1>>, 40), rate |-> MkArray(<<MaxLen, 0, 1>>, 30)],
      \* the rate table lacks the donor temperature dimension
      [ne |-> MkArray(<<MaxLen>>, 10), te |-> MkArray(<<1>>, 20),
       td |-> MkArray(<<1>>, 40), rate |-> MkArray(<<MaxLen, 1>>, 30)],
      \* the donor temperature axis is 2-D
      [ne |-> MkArray(<<MaxLen>>, 10), te |-> MkArray(<<1>>, 20),
       td |-> MkArray(<<1, 1>>, 40), rate |-> MkArray(<<MaxLen, 1, 1>>, 30)] }

\* beam emission: e (N), n (M), t (K), sen (N, M), st (K) and four references
BeamPayloads ==
    { [e |-> MkArray(<<MaxLen>>, 10), n |-> MkArray(<<1>>, 20),
       t |-> MkArray(<<MaxLen>>, 40), sen |-> MkArray(<<MaxLen, 1>>, 30),
       st |-> MkArray(<<MaxLen>>, 50), eref |-> 1, nref |-> 2, tref |-> 3, sref |-> 4],
      \* well-shaped, the energy axis is empty
      [e |-> MkArray(<<0>>, 10), n |-> MkArray(<<MaxLen>>, 20),
       t |-> MkArray(<<1>>, 40), sen |-> MkArray(<<0, MaxLen>>, 30),
       st |-> MkArray(<<1>>, 50), eref |-> 5, nref |-> 6, tref |-> 7, sref |-> 8],
      \* st is shorter than t
      [e |-> MkArray(<<MaxLen>>, 10), n |-> MkArray(<<1>>, 20),
       t |-> MkArray(<<MaxLen>>, 40), sen |-> MkArray(<<MaxLen, 1>>, 30),
       st |-> MkArray(<<1>>, 50), eref |-> 1, nref |-> 2, tref |-> 3, sref |-> 4],
      \* the density axis is 2-D
      [e |-> MkArray(<<MaxLen>>, 10), n |-> MkArray(<<1, 1>>, 20),
       t |-> MkArray(<<MaxLen>>, 40), sen |-> MkArray(<<MaxLen, 1>>, 30),
       st |-> MkArray(<<MaxLen>>, 50), eref |-> 1, nref |-> 2, tref |-> 3, sref |-> 4] }

Payloads(section) ==
    CASE section = "thermal_cx" -> ThermalCxPayloads
      [] section = "beam_emission" -> BeamPayloads
      [] OTHER -> PecPayloads

\* the outcome of validating one record: the value error, or the stored form
Rejected(why) == [ok |-> FALSE, why |-> why, value |-> <<>>]
Accepted(value) == [ok |-> TRUE, why |-> "", value |-> value]

\* update_pec_rates without the comparison of the sizes
ValidatePecRate_SizesUnchecked(data) ==
    IF ndim(data.ne) # 1 THEN Rejected("Density array must be a 1D array.")
    ELSE IF ndim(data.te) # 1
        THEN Rejected("Temperature array must be a 1D array.")
    ELSE Accepted([ne |-> tolist(data.ne), te |-> tolist(data.te),
                   rate |-> tolist(data.rate)])

\* pec.py: sanitise/validate data of update_pec_rates
ValidatePecRate(data) ==
    IF ndim(data.ne) # 1 THEN Rejected("Density array must be a 1D array.")
    ELSE IF ndim(data.te) # 1
        THEN Rejected("Temperature array must be a 1D array.")
    ELSE IF <<data.ne.shape[1], data.te.shape[1]>> # data.rate.shape
        THEN Rejected("inconsistent sizes")
    ELSE Accepted([ne |-> tolist(data.ne), te |-> tolist(data.te),
                   rate |-> tolist(data.rate)])

\* pec.py: sanitise/validate data of update_pec_thermal_cx_rates
ValidateThermalCxRate(data) ==
    IF ndim(data.ne) # 1
        THEN Rejected("Electron density array must be a 1D array.")
    ELSE IF ndim(data.te) # 1
        THEN Rejected("Electron temperature array must be a 1D array.")
    ELSE IF ndim(data.td) # 1
        THEN Rejected("Donor temperature array must be a 1D array.")
    ELSE IF <<data.ne.shape[1], data.te.shape[1], data.td.shape[1]>> # data.rate.shape
        THEN Rejected("inconsistent sizes")
    ELSE Accepted([ne |-> tolist(data.ne), te |-> tolist(data.te),
                   td |-> tolist(data.td), rate |-> tolist(data.rate)])

\* beam/emission.py: sanitise and validate rate data
ValidateBeamRate(rate) ==
    IF ndim(rate.e) # 1 THEN Rejected("Beam energy array must be a 1D array.")
    ELSE IF ndim(rate.n) # 1 THEN Rejected("Density array must be a 1D array.")
    ELSE IF ndim(rate.t) # 1 THEN Rejected("Temperature array must be a 1D array.")
    ELSE IF <<rate.e.shape[1], rate.n.shape[1]>> # rate.sen.shape
        THEN Rejected("inconsistent sizes")
    ELSE IF rate.t.shape # rate.st.shape
        THEN Rejected("inconsistent sizes")
    ELSE Accepted([e |-> tolist(rate.e), n |-> tolist(rate.n), t |-> tolist(rate.t),
                   sen |-> tolist(rate.sen), st |-> tolist(rate.st),
                   eref |-> rate.eref, nref |-> rate.nref,
                   tref |-> rate.tref, sref |-> rate.sref])

(***************************************************************************)
(* Documents.  A file is absent, holds a JSON document (the sequence of    *)
(* its (key, value) members in the order they are written in the file),    *)
(* or holds text that is no JSON.  A dict in memory is the sequence of its *)
(* items in insertion order.                                               *)
(***************************************************************************)
AbsentFile == [kind |-> "absent", text |-> <<>>]
MalformedFile == [kind |-> "malformed", text |-> <<>>]
JsonFile(text) == [kind |-> "json", text |-> text]

\* the files are the mapping from the paths that exist to their content
FileAt(fs, path) == IF path \in DOMAIN fs THEN fs[path] ELSE AbsentFile

WriteFile(fs, path, file) ==
    [p \in DOMAIN fs \cup {path} |-> IF p = path THEN file ELSE fs[p]]

HasKey(content, key) == \E n \in 1..Len(content) : content[n].key = key

GetItem(content, key) ==
    content[CHOOSE n \in 1..Len(content) : content[n].key = key].value

\* content = {key: value}: the document is replaced, not merged
SetItem_Replacing(content, key, value) == <<[key |-> key, value |-> value]>>

\* content[key] = value: replaces the value in place, or appends the item
SetItem(content, key, value) ==
    IF HasKey(content, key)
    THEN [n \in 1..Len(content) |->
            IF content[n].key = key THEN [key |-> key, value |-> value]
            ELSE content[n]]
    ELSE Append(content, [key |-> key, value |-> value])

\* the items ordered by key
RECURSIVE SortItems(_)
SortItems(content) ==
    IF content = <<>> THEN <<>>
    ELSE LET least == CHOOSE n \in 1..Len(content) :
                        \A m \in 1..Len(content) :
                            KeyRank(content[n].key) <= KeyRank(content[m].key)
         IN  <<content[least]>>
             \o SortItems([n \in 1..(Len(content) - 1) |->
                              IF n < least THEN content[n] ELSE content[n + 1]])

\* json.dump(content, f, indent=2): the items in insertion order
json_dump_Unsorted(content) == content

\* json.dump(content, f, indent=2, sort_keys=True)
json_dump(content) == SortItems(content)

(***************************************************************************)
(* The state a call works on: the files and directories of the             *)
(* repository, the file operations the call has made (each tagged with the *)
(* position in the request of the address it was made for) and the         *)
(* exception that ended it.                                                *)
(***************************************************************************)
Started(fs, ds) ==
    [files |-> fs, dirs |-> ds, io |-> <<>>, raised |-> "none", why |-> "", failed |-> 0]

Raise(st, i, exception, why) ==
    [st EXCEPT !.raised = exception, !.why = why, !.failed = i]

Event(op, i, path) == [op |-> op, entry |-> i, path |-> path]

\* read in any existing rates, every exception caught
LoadExisting_AnyErrorAsEmpty(st, i, path) ==
    LET opened == [st EXCEPT !.io = Append(@, Event("read", i, path))]
        file == FileAt(st.files, path)
    IN  IF file.kind = "json" THEN [st |-> opened, content |-> file.text]
        ELSE [st |-> opened, content |-> <<>>]

\* read in any existing rates: open(path, 'r'), json.load, RecursiveDict.from_dict;
\* only FileNotFoundError is caught
LoadExisting(st, i, path) ==
    LET opened == [st EXCEPT !.io = Append(@, Event("read", i, path))]
        file == FileAt(st.files, path)
    IN  IF file.kind = "absent" THEN [st |-> opened, content |-> <<>>]
        ELSE IF file.kind = "malformed"
            THEN [st |-> Raise(opened, i, "JSONDecodeError", "existing document"),
                  content |-> <<>>]
        ELSE [st |-> opened, content |-> file.text]

\* create directory structure if missing, then write new data
StoreDocument(st, i, path, content) ==
    LET directory == dirname(path)
        made == IF directory \in st.dirs THEN st
                ELSE [st EXCEPT
                        !.dirs = @ \cup {SubSeq(directory, 1, n) : n \in 1..Len(directory)},
                        !.io = Append(@, Event("makedirs", i, directory))]
    IN  [made EXCEPT !.files = WriteFile(@, path, JsonFile(json_dump(content))),
                     !.io = Append(@, Event("write", i, path))]

(***************************************************************************)
(* Update requests.  A request is the sequence of the leaves of the nested *)
(* mapping in iteration order: each entry is an address (the chain of keys *)
(* above the transitions) and its transitions with their records.          *)
(***************************************************************************)
HasData(rates, addr, transition) ==
    \E n \in 1..Len(rates) :
        /\ rates[n].addr = addr
        /\ \E j \in 1..Len(rates[n].trans) : rates[n].trans[j].transition = transition

\* rates[k1][k2]...[transition]
Data(rates, addr, transition) ==
    LET n == CHOOSE n \in 1..Len(rates) : rates[n].addr = addr
        j == CHOOSE j \in 1..Len(rates[n].trans) :
                rates[n].trans[j].transition = transition
    IN  rates[n].trans[j].data

Merged(content) == [raised |-> "none", why |-> "", content |-> content]
MergeFailed(exception, why) == [raised |-> exception, why |-> why, content |-> <<>>]

\* update_pec_rates leaving the loop at a rejected record, without raising
RECURSIVE MergePecRates_PartKept(_, _, _, _, _)
MergePecRates_PartKept(rates, addr, transitions, j, content) ==
    IF j > Len(transitions) THEN Merged(content)
    ELSE LET transition == transitions[j].transition
             key == encode_transition(transition)
         IN  IF ~HasData(rates, addr, transition)
             THEN MergeFailed("KeyError", "rates")
             ELSE LET v == ValidatePecRate(Data(rates, addr, transition))
                  IN  IF ~v.ok THEN Merged(content)
                      ELSE MergePecRates_PartKept(rates, addr, transitions, j + 1,
                                                  SetItem(content, key, v.value))

\* update_pec_rates: add/replace data for a transition
RECURSIVE MergePecRates(_, _, _, _, _)
MergePecRates(rates, addr, transitions, j, content) ==
    IF j > Len(transitions) THEN Merged(content)
    ELSE LET transition == transitions[j].transition
             key == encode_transition(transition)
         IN  IF ~HasData(rates, addr, transition)
             THEN MergeFailed("KeyError", "rates")
             ELSE LET v == ValidatePecRate(Data(rates, addr, transition))
                  IN  IF ~v.ok THEN MergeFailed("ValueError", v.why)
                      ELSE MergePecRates(rates, addr, transitions, j + 1,
                                         SetItem(content, key, v.value))

\* update_pec_thermal_cx_rates: add/replace data for a transition
RECURSIVE MergeThermalCxRates(_, _, _)
MergeThermalCxRates(transitions, j, content) ==
    IF j > Len(transitions) THEN Merged(content)
    ELSE LET key == encode_transition(transitions[j].transition)
             v == ValidateThermalCxRate(transitions[j].data)
         IN  IF ~v.ok THEN MergeFailed("ValueError", v.why)
             ELSE MergeThermalCxRates(transitions, j + 1, SetItem(content, key, v.value))

\* update_beam_emission_rates: add/replace data for a transition
RECURSIVE MergeBeamRates(_, _, _, _, _)
MergeBeamRates(rates, addr, transitions, j, content) ==
    IF j > Len(transitions) THEN Merged(content)
    ELSE LET transition == transitions[j].transition
             key == encode_transition(transition)
             v == ValidateBeamRate(Data(rates, addr, transition))
         IN  IF ~v.ok THEN MergeFailed("ValueError", v.why)
             ELSE MergeBeamRates(rates, addr, transitions, j + 1,
                                 SetItem(content, key, v.value))

\* the end of an iteration: the exception of the merge, or the write
WriteMerged(st, i, path, merged) ==
    IF merged.raised # "none" THEN Raise(st, i, merged.raised, merged.why)
    ELSE StoreDocument(st, i, path, merged.content)

\* update_pec_rates with the charge checked after the write
UpdatePecAddress_ChargeCheckedLate(st, rates, i) ==
    LET cls == lower(rates[i].addr[1])
        element == rates[i].addr[2]
        charge == rates[i].addr[3]
        path == PecPath(cls, element, charge)
        loaded == LoadExisting(st, i, path)
        done == IF loaded.st.raised # "none" THEN loaded.st
                ELSE WriteMerged(loaded.st, i, path,
                        MergePecRates(rates, <<cls, element, charge>>, rates[i].trans, 1,
                                      loaded.content))
    IN  IF cls \notin valid_classes
            THEN Raise(st, i, "ValueError", "Unrecognised pec rate class")
        ELSE IF ~isinstance_Element(element)
            THEN Raise(st, i, "TypeError", "The element must be an Element object.")
        ELSE IF done.raised = "none" /\ ~valid_charge(element, charge)
            THEN Raise(done, i, "ValueError", "Charge state")
        ELSE done

\* update_pec_rates: one iteration of the loops, for the i-th leaf of rates
UpdatePecAddress(st, rates, i) ==
    LET cls == lower(rates[i].addr[1])
        element == rates[i].addr[2]
        charge == rates[i].addr[3]
        path == PecPath(cls, element, charge)
        loaded == LoadExisting(st, i, path)
    IN  IF cls \notin valid_classes
            THEN Raise(st, i, "ValueError", "Unrecognised pec rate class")
        ELSE IF ~isinstance_Element(element)
            THEN Raise(st, i, "TypeError", "The element must be an Element object.")
        ELSE IF ~valid_charge(element, charge)
            THEN Raise(st, i, "ValueError", "Charge state")
        ELSE IF loaded.st.raised # "none" THEN loaded.st
        ELSE WriteMerged(loaded.st, i, path,
                MergePecRates(rates, <<cls, element, charge>>, rates[i].trans, 1,
                              loaded.content))

\* update_pec_thermal_cx_rates with the donor charge checked as it is given
UpdateThermalCxAddress_DonorChargeAsGiven(st, rates, i) ==
    LET donor_element == rates[i].addr[1]
        donor_charge == rates[i].addr[2]
        receiver_element == rates[i].addr[3]
        receiver_charge == rates[i].addr[4]
        path == ThermalCxPath(donor_element, donor_charge,
                              receiver_element, receiver_charge)
        loaded == LoadExisting(st, i, path)
    IN  IF ~isinstance_Element(donor_element)
            THEN Raise(st, i, "TypeError", "The donor element must be an Element object.")
        ELSE IF ~valid_charge(donor_element, donor_charge)
            THEN Raise(st, i, "ValueError", "Donor charge state")
        ELSE IF ~isinstance_Element(receiver_element)
            THEN Raise(st, i, "TypeError", "The receiver element must be an Element object.")
        ELSE IF ~valid_charge(receiver_element, receiver_charge)
            THEN Raise(st, i, "ValueError", "Receiver charge state")
        ELSE IF loaded.st.raised # "none" THEN loaded.st
        ELSE WriteMerged(loaded.st, i, path,
                MergeThermalCxRates(rates[i].trans, 1, loaded.content))

\* update_pec_thermal_cx_rates: one iteration of the loops
UpdateThermalCxAddress(st, rates, i) ==
    LET donor_element == rates[i].addr[1]
        donor_charge == rates[i].addr[2]
        receiver_element == rates[i].addr[3]
        receiver_charge == rates[i].addr[4]
        path == ThermalCxPath(donor_element, donor_charge,
                              receiver_element, receiver_charge)
        loaded == LoadExisting(st, i, path)
    IN  IF ~isinstance_Element(donor_element)
            THEN Raise(st, i, "TypeError", "The donor element must be an Element object.")
        ELSE IF ~valid_charge(donor_element, donor_charge + 1)
            THEN Raise(st, i, "ValueError", "Donor charge state")
        ELSE IF ~isinstance_Element(receiver_element)
            THEN Raise(st, i, "TypeError", "The receiver element must be an Element object.")
        ELSE IF ~valid_charge(receiver_element, receiver_charge)
            THEN Raise(st, i, "ValueError", "Receiver charge state")
        ELSE IF loaded.st.raised # "none" THEN loaded.st
        ELSE WriteMerged(loaded.st, i, path,
                MergeThermalCxRates(rates[i].trans, 1, loaded.content))

\* update_beam_emission_rates with the rates validated before the existing
\* rates are read
UpdateBeamAddress_ValidatedFirst(st, rates, i) ==
    LET beam_species == rates[i].addr[1]
        target_ion == rates[i].addr[2]
        target_charge == rates[i].addr[3]
        path == BeamPath(beam_species, target_ion, target_charge)
        checked == MergeBeamRates(rates, rates[i].addr, rates[i].trans, 1, <<>>)
        loaded == LoadExisting(st, i, path)
    IN  IF ~isinstance_Element(beam_species)
            THEN Raise(st, i, "TypeError", "The beam_species must be an Element object.")
        ELSE IF ~isinstance_Element(target_ion)
            THEN Raise(st, i, "TypeError", "The beam_species must be an Element object.")
        ELSE IF ~valid_charge(target_ion, target_charge)
            THEN Raise(st, i, "ValueError", "Charge state")
        ELSE IF checked.raised # "none" THEN Raise(st, i, checked.raised, checked.why)
        ELSE IF loaded.st.raised # "none" THEN loaded.st
        ELSE WriteMerged(loaded.st, i, path,
                MergeBeamRates(rates, rates[i].addr, rates[i].trans, 1, loaded.content))

\* update_beam_emission_rates: one iteration of the loops
UpdateBeamAddress(st, rates, i) ==
    LET beam_species == rates[i].addr[1]
        target_ion == rates[i].addr[2]
        target_charge == rates[i].addr[3]
        path == BeamPath(beam_species, target_ion, target_charge)
        loaded == LoadExisting(st, i, path)
    IN  IF ~isinstance_Element(beam_species)
            THEN Raise(st, i, "TypeError", "The beam_species must be an Element object.")
        ELSE IF ~isinstance_Element(target_ion)
            THEN Raise(st, i, "TypeError", "The beam_species must be an Element object.")
        ELSE IF ~valid_charge(target_ion, target_charge)
            THEN Raise(st, i, "ValueError", "Charge state")
        ELSE IF loaded.st.raised # "none" THEN loaded.st
        ELSE WriteMerged(loaded.st, i, path,
                MergeBeamRates(rates, rates[i].addr, rates[i].trans, 1, loaded.content))

UpdateAddress(section, st, rates, i) ==
    CASE section = "thermal_cx" -> UpdateThermalCxAddress(st, rates, i)
      [] section = "beam_emission" -> UpdateBeamAddress(st, rates, i)
      [] OTHER -> UpdatePecAddress(st, rates, i)

\* the loops over the request going on to the next address after an
\* exception, which is raised at the end
RECURSIVE UpdateFrom_PastFailure(_, _, _, _)
UpdateFrom_PastFailure(section, st, rates, i) ==
    IF i > Len(rates) THEN st
    ELSE LET tried == UpdateAddress(section, [st EXCEPT !.raised = "none"], rates, i)
             kept == IF st.raised = "none" THEN tried
                     ELSE [tried EXCEPT !.raised = st.raised, !.why = st.why,
                                        !.failed = st.failed]
         IN  UpdateFrom_PastFailure(section, kept, rates, i + 1)

\* the loops over the request: the first exception ends the call
RECURSIVE UpdateFrom(_, _, _, _)
UpdateFrom(section, st, rates, i) ==
    IF i > Len(rates) \/ st.raised # "none" THEN st
    ELSE UpdateFrom(section, UpdateAddress(section, st, rates, i), rates, i + 1)

(***************************************************************************)
(* The read path.                                                          *)
(***************************************************************************)
format_transition(transition) ==
    CASE transition = <<2, 1>> -> "(2, 1)"
      [] transition = <<3, 2>> -> "(3, 2)"
      [] OTHER -> "?"

Part(name, text) == [name |-> name, text |-> text]

Returned(value) == [raised |-> "none", message |-> {}, value |-> value]
GetFailed(exception, message) == [raised |-> exception, message |-> message, value |-> <<>>]

\* every exception turned into the RuntimeError
Lookup_AnyErrorAsNotFound(fs, path, transition, message) ==
    LET file == FileAt(fs, path)
        key == encode_transition(transition)
    IN  IF file.kind # "json" THEN GetFailed("RuntimeError", message)
        ELSE IF ~HasKey(file.text, key) THEN GetFailed("RuntimeError", message)
        ELSE Returned(GetItem(file.text, key))

\* open(path, 'r'), json.load, content[key]: FileNotFoundError and KeyError are
\* turned into a RuntimeError carrying the message, anything else propagates
Lookup(fs, path, transition, message) ==
    LET file == FileAt(fs, path)
        key == encode_transition(transition)
    IN  IF file.kind = "absent" THEN GetFailed("RuntimeError", message)
        ELSE IF file.kind = "malformed" THEN GetFailed("JSONDecodeError", {})
        ELSE IF ~HasKey(file.text, key) THEN GetFailed("RuntimeError", message)
        ELSE Returned(GetItem(file.text, key))

\* _get_pec_rate
get_pec_rate(fs, cls, element, charge, transition) ==
    LET found == Lookup(fs, PecPath(cls, element, charge), transition,
                    {Part("class", cls), Part("element", element.symbol),
                     Part("charge", format_int(charge)),
                     Part("transition", format_transition(transition))})
        d == found.value
    IN  IF found.raised # "none" THEN found
        ELSE Returned([ne |-> np_array(d.ne), te |-> np_array(d.te),
                       rate |-> np_array(d.rate)])

\* get_pec_thermal_cx_rate
get_pec_thermal_cx_rate(fs, donor_element, donor_charge, receiver_element, receiver_charge, transition) ==
    LET found == Lookup(fs,
                    ThermalCxPath(donor_element, donor_charge,
                                  receiver_element, receiver_charge),
                    transition,
                    {Part("class", "thermal charge-exchange PEC"),
                     Part("donor", donor_element.symbol),
                     Part("donor charge", format_int(donor_charge)),
                     Part("receiver", receiver_element.symbol),
                     Part("receiver charge", format_int(receiver_charge))})
        d == found.value
    IN  IF found.raised # "none" THEN found
        ELSE Returned([ne |-> np_array(d.ne), te |-> np_array(d.te),
                       td |-> np_array(d.td), rate |-> np_array(d.rate)])

\* get_beam_emission_rate
get_beam_emission_rate(fs, beam_species, target_ion, target_charge, transition) ==
    LET found == Lookup(fs, BeamPath(beam_species, target_ion, target_charge), transition,
                    {Part("class", "beam emission rate"),
                     Part("beam species", beam_species.symbol),
                     Part("target ion", target_ion.symbol),
                     Part("target charge", format_int(target_charge)),
                     Part("transition", format_transition(transition))})
        rate == found.value
    IN  IF found.raised # "none" THEN found
        ELSE Returned([e |-> np_array(rate.e), n |-> np_array(rate.n),
                       t |-> np_array(rate.t), sen |-> np_array(rate.sen),
                       st |-> np_array(rate.st), eref |-> rate.eref, nref |-> rate.nref,
                       tref |-> rate.tref, sref |-> rate.sref])

(***************************************************************************)
(* The requests and queries the calls are tried with.                      *)
(***************************************************************************)
\* the addresses: every component acceptable, or one component varied
Addresses(section) ==
    CASE section = "thermal_cx" ->
            {<<e, 0, Hydrogen, 0>> : e \in Species}
            \cup {<<Hydrogen, c, Hydrogen, 0>> : c \in DonorCharges}
            \cup {<<Hydrogen, 0, e, 0>> : e \in Species}
            \cup {<<Hydrogen, 0, Hydrogen, c>> : c \in Charges}
      [] section = "beam_emission" ->
            {<<e, Hydrogen, 0>> : e \in Species}
            \cup {<<Hydrogen, e, 0>> : e \in Species}
            \cup {<<Hydrogen, Hydrogen, c>> : c \in Charges}
      [] OTHER ->
            {<<k, Hydrogen, 0>> : k \in ClassKeys(section)}
            \cup {<<section, e, 0>> : e \in Species}
            \cup {<<section, Hydrogen, c>> : c \in Charges}

\* the addresses that pass every check of their update function
Acceptable(section, a) ==
    CASE section = "thermal_cx" ->
            /\ isinstance_Element(a[1]) /\ valid_charge(a[1], a[2] + 1)
            /\ isinstance_Element(a[3]) /\ valid_charge(a[3], a[4])
      [] section = "beam_emission" ->
            /\ isinstance_Element(a[1]) /\ isinstance_Element(a[2])
            /\ valid_charge(a[2], a[3])
      [] OTHER ->
            /\ a[1] \in valid_classes /\ isinstance_Element(a[2])
            /\ valid_charge(a[2], a[3])

\* the records whose axes are 1-D and not empty: a well-shaped one and one
\* whose table has not the lengths of its axes
FullAxes(section) ==
    {d \in Payloads(section) :
        \A x \in (CASE section = "thermal_cx" -> {d.ne, d.te, d.td}
                    [] section = "beam_emission" -> {d.e, d.n, d.t}
                    [] OTHER -> {d.ne, d.te}) : ndim(x) = 1 /\ x.shape[1] > 0}

\* the records tried at an address: one record where they are not looked at
PayloadsAt(section, a, payloads) ==
    IF Acceptable(section, a) THEN payloads
    ELSE {CHOOSE d \in Payloads(section) : TRUE}

\* the transitions of one address with their records, in iteration order
TransitionLists(section, a, among, payloads) ==
    UNION { {l \in [1..n -> [transition : among,
                             data : PayloadsAt(section, a, payloads)]] :
                \A j, k \in 1..n : j # k => l[j].transition # l[k].transition} :
            n \in 1..Cardinality(among) }

Entries(section, among, payloads) ==
    UNION { [addr : {a}, trans : TransitionLists(section, a, among, payloads)] :
            a \in Addresses(section) }

\* the leaves of a nested mapping: the keys at each level are distinct, and
\* the leaves below one key are met together
WellNested(rates) ==
    /\ \A m, n \in 1..Len(rates) : m # n => rates[m].addr # rates[n].addr
    /\ \A l, m, n \in 1..Len(rates) : \A d \in 1..Len(rates[l].addr) :
            (l < m /\ m < n /\ SubSeq(rates[l].addr, 1, d) = SubSeq(rates[n].addr, 1, d))
                => SubSeq(rates[m].addr, 1, d) = SubSeq(rates[l].addr, 1, d)

\* update_pec_rates: the class under a key that is not in lower case, then
\* under its own name with two transitions, for the same element and charge
BothCases(section) ==
    IF section \notin valid_classes THEN {}
    ELSE { <<[addr |-> <<k, Hydrogen, 0>>,
              trans |-> <<[transition |-> <<2, 1>>, data |-> first]>>],
             [addr |-> <<section, Hydrogen, 0>>,
              trans |-> <<[transition |-> <<2, 1>>, data |-> first],
                          [transition |-> <<3, 2>>, data |-> second]>>]>> :
            k \in {c \in ClassKeys(section) : c # section /\ lower(c) = section},
            first \in {d \in FullAxes(section) : ValidatePecRate(d).ok},
            second \in FullAxes(section) }

\* a request holds one address with any of the transitions and records, or up
\* to MaxAddresses addresses, each with the same single transition, or the
\* same class under two keys
Requests ==
    [section \in Sections |->
        {<<e>> : e \in Entries(section, Transitions, Payloads(section))}
        \cup UNION { {rates \in [1..n -> Entries(section, {<<2, 1>>}, FullAxes(section))] :
                        WellNested(rates)} :
                     n \in 2..MaxAddresses }
        \cup BothCases(section)]

Queries(section) ==
    CASE section = "thermal_cx" ->
            [addr : {<<Hydrogen, 0, Hydrogen, c>> : c \in DonorCharges},
             transition : Transitions]
      [] section = "beam_emission" ->
            [addr : {<<Hydrogen, Hydrogen, c>> : c \in DonorCharges}, transition : Transitions]
      [] OTHER ->
            [addr : {<<section, Hydrogen, c>> : c \in DonorCharges}, transition : Transitions]

(***************************************************************************)
(* The state machine.                                                      *)
(***************************************************************************)
VARIABLES
    section,    \* the rate class whose operations the behaviour exercises
    files,      \* the content of every file of the repository
    dirs,       \* the directories that exist
    before,     \* the files as they were when the last call began
    call,       \* the last call, until its caller is done with it
    latest,     \* the record last supplied for each (document, key)
    procs       \* the processes that run calls at the same time

vars == <<section, files, dirs, before, call, latest, procs>>

NoCall ==
    [op |-> "none", rates |-> <<>>, query |-> <<>>, raised |-> "none", why |-> "",
     failed |-> 0, io |-> <<>>, message |-> {}, value |-> <<>>]

\* a process that has not called anything yet
IdleProcess ==
    [pc |-> "idle", rates |-> <<>>, query |-> <<>>, content |-> <<>>,
     raised |-> "none", value |-> <<>>, stamp |-> 0]

Processes == {"writer 1", "writer 2", "reader"}

Init ==
    /\ section \in Sections
    /\ files = <<>>
    /\ dirs = {}
    /\ before = files
    /\ call = NoCall
    /\ latest = <<>>
    /\ procs = [p \in Processes |-> IdleProcess]

Update(op, rates) ==
    LET st == UpdateFrom(section, Started(files, dirs), rates, 1)
    IN  /\ files' = st.files
        /\ dirs' = st.dirs
        /\ before' = files
        /\ call' = [NoCall EXCEPT !.op = op, !.rates = rates, !.raised = st.raised,
                                  !.why = st.why, !.failed = st.failed, !.io = st.io]
        /\ UNCHANGED section

update_pec_rates ==
    /\ call.op = "none"
    /\ section \in valid_classes
    /\ \E rates \in Requests[section] : Update("update_pec_rates", rates)
    /\ UNCHANGED <<latest, procs>>

update_pec_thermal_cx_rates ==
    /\ call.op = "none"
    /\ section = "thermal_cx"
    /\ \E rates \in Requests[section] : Update("update_pec_thermal_cx_rates", rates)
    /\ UNCHANGED <<latest, procs>>

update_beam_emission_rates ==
    /\ call.op = "none"
    /\ section = "beam_emission"
    /\ \E rates \in Requests[section] : Update("update_beam_emission_rates", rates)
    /\ UNCHANGED <<latest, procs>>

\* a get that leaves an empty document behind where it found none
Get_CreatingDocument(op, query, got) ==
    LET a == query.addr
        path == CASE section = "thermal_cx" -> ThermalCxPath(a[1], a[2], a[3], a[4])
                  [] section = "beam_emission" -> BeamPath(a[1], a[2], a[3])
                  [] OTHER -> PecPath(a[1], a[2], a[3])
    IN  /\ call' = [NoCall EXCEPT !.op = op, !.query = query, !.raised = got.raised,
                                  !.message = got.message, !.value = got.value]
        /\ before' = files
        /\ files' = IF path \in DOMAIN files THEN files
                     ELSE WriteFile(files, path, JsonFile(<<>>))
        /\ UNCHANGED <<section, dirs>>

Get(op, query, got) ==
    /\ call' = [NoCall EXCEPT !.op = op, !.query = query, !.raised = got.raised,
                              !.message = got.message, !.value = got.value]
    /\ before' = files
    /\ UNCHANGED <<section, files, dirs>>

\* get_pec_excitation_rate, get_pec_recombination_rate
GetPecRate ==
    /\ call.op = "none"
    /\ section \in valid_classes
    /\ \E q \in Queries(section) :
        Get("get_pec_rate", q,
            get_pec_rate(files, q.addr[1], q.addr[2], q.addr[3], q.transition))
    /\ UNCHANGED <<latest, procs>>

GetPecThermalCxRate ==
    /\ call.op = "none"
    /\ section = "thermal_cx"
    /\ \E q \in Queries(section) :
        Get("get_pec_thermal_cx_rate", q,
            get_pec_thermal_cx_rate(files, q.addr[1], q.addr[2], q.addr[3], q.addr[4],
                                    q.transition))
    /\ UNCHANGED <<latest, procs>>

GetBeamEmissionRate ==
    /\ call.op = "none"
    /\ section = "beam_emission"
    /\ \E q \in Queries(section) :
        Get("get_beam_emission_rate", q,
            get_beam_emission_rate(files, q.addr[1], q.addr[2], q.addr[3], q.transition))
    /\ UNCHANGED <<latest, procs>>

\* the caller is done with the outcome of the last call
Return ==
    /\ call.op # "none"
    /\ call' = NoCall
    /\ before' = files
    /\ UNCHANGED <<section, files, dirs, latest, procs>>

\* outside the program: the text of an existing document is damaged
Damage ==
    /\ call.op = "none"
    /\ \E p \in DOMAIN files :
        /\ files[p].kind = "json"
        /\ files' = [files EXCEPT ![p] = MalformedFile]
    /\ before' = files'
    /\ UNCHANGED <<section, dirs, call, latest, procs>>

Next ==
    \/ update_pec_rates
    \/ update_pec_thermal_cx_rates
    \/ update_beam_emission_rates
    \/ GetPecRate
    \/ GetPecThermalCxRate
    \/ GetBeamEmissionRate
    \/ Return
    \/ Damage

Spec == Init /\ [][Next]_vars

(***************************************************************************)
(* What the claims speak of.                                               *)
(***************************************************************************)
UpdateOps ==
    {"update_pec_rates", "update_pec_thermal_cx_rates", "update_beam_emission_rates"}

GetOps == {"get_pec_rate", "get_pec_thermal_cx_rate", "get_beam_emission_rate"}

IsUpdate == call.op \in UpdateOps
IsGet == call.op \in GetOps
Succeeded == IsUpdate /\ call.raised = "none"

\* the document of an address
DocumentPath(a) ==
    CASE section = "thermal_cx" -> ThermalCxPath(a[1], a[2], a[3], a[4])
      [] section = "beam_emission" -> BeamPath(a[1], a[2], a[3])
      [] OTHER -> PecPath(lower(a[1]), a[2], a[3])

\* the species of the address are Element objects, so that it has a document
Located(a) ==
    CASE section = "thermal_cx" -> isinstance_Element(a[1]) /\ isinstance_Element(a[3])
      [] section = "beam_emission" -> isinstance_Element(a[1]) /\ isinstance_Element(a[2])
      [] OTHER -> isinstance_Element(a[2])

\* the errors of the checks made on an address
AddressErrors ==
    {"Unrecognised pec rate class", "The element must be an Element object.",
     "Charge state", "The donor element must be an Element object.",
     "Donor charge state", "The receiver element must be an Element object.",
     "Receiver charge state", "The beam_species must be an Element object."}

AddressRejected == IsUpdate /\ call.failed > 0 /\ call.why \in AddressErrors

RecordRejected ==
    /\ IsUpdate
    /\ call.raised = "ValueError"
    /\ call.why \notin AddressErrors

\* the i-th address of the request was reached by the call
Reached(i) == i \in 1..Len(call.rates) /\ (call.failed = 0 \/ i <= call.failed)

\* the address names its rate class as the repository spells it
Plain(a) == section \in valid_classes => a[1] = section

Validate(data) ==
    CASE section = "thermal_cx" -> ValidateThermalCxRate(data)
      [] section = "beam_emission" -> ValidateBeamRate(data)
      [] OTHER -> ValidatePecRate(data)

GetRate(fs, a, transition) ==
    CASE section = "thermal_cx" ->
            get_pec_thermal_cx_rate(fs, a[1], a[2], a[3], a[4], transition)
      [] section = "beam_emission" ->
            get_beam_emission_rate(fs, a[1], a[2], a[3], transition)
      [] OTHER -> get_pec_rate(fs, a[1], a[2], a[3], transition)

Writes(i) == {n \in 1..Len(call.io) : call.io[n].op = "write" /\ call.io[n].entry = i}

Written(path) ==
    \E n \in 1..Len(call.io) : call.io[n].op = "write" /\ call.io[n].path = path

\* C1: a get for (address, transition) right after a successful update holding
\* (address, transition, record) returns the axes and tables of the record,
\* equal in shape and in every value
C1_RoundTrip ==
    Succeeded =>
        \A i \in 1..Len(call.rates) : \A j \in 1..Len(call.rates[i].trans) :
            LET a == call.rates[i].addr
                t == call.rates[i].trans[j]
                got == GetRate(files, a, t.transition)
            IN  Plain(a) => (got.raised = "none" /\ got.value = t.data)

\* the keys the i-th address of the request writes
KeysOf(i) ==
    {encode_transition(call.rates[i].trans[j].transition) :
        j \in 1..Len(call.rates[i].trans)}

\* the keys the request writes in the document of its i-th address, under
\* whatever key of the request the document is addressed
KeysOfDocument(i) ==
    UNION {KeysOf(m) : m \in {m \in 1..Len(call.rates) :
                DocumentPath(call.rates[m].addr) = DocumentPath(call.rates[i].addr)}}

\* C2: a successful update leaves every record of a document whose key is not
\* the encoding of a transition of the request for that address present and
\* unchanged
C2_MergePreservesOtherKeys ==
    Succeeded =>
        \A i \in 1..Len(call.rates) :
            LET path == DocumentPath(call.rates[i].addr)
                old == FileAt(before, path)
                new == FileAt(files, path)
            IN  \A n \in 1..Len(old.text) :
                    old.text[n].key \notin KeysOfDocument(i) =>
                        /\ new.kind = "json"
                        /\ HasKey(new.text, old.text[n].key)
                        /\ GetItem(new.text, old.text[n].key) = old.text[n].value

C2_Witness ==
    /\ Succeeded
    /\ Len(call.rates) = 1
    /\ Len(call.rates[1].trans) = 1
    /\ Len(FileAt(before, DocumentPath(call.rates[1].addr)).text) = 2
    /\ FileAt(before, DocumentPath(call.rates[1].addr))
            # FileAt(files, DocumentPath(call.rates[1].addr))

\* the axes of a record are 1-D and each table has the lengths of its axes
WellShaped(data) ==
    CASE section = "thermal_cx" ->
            /\ ndim(data.ne) = 1 /\ ndim(data.te) = 1 /\ ndim(data.td) = 1
            /\ data.rate.shape = data.ne.shape \o data.te.shape \o data.td.shape
      [] section = "beam_emission" ->
            /\ ndim(data.e) = 1 /\ ndim(data.n) = 1 /\ ndim(data.t) = 1
            /\ data.sen.shape = data.e.shape \o data.n.shape
            /\ data.st.shape = data.t.shape
      [] OTHER ->
            /\ ndim(data.ne) = 1 /\ ndim(data.te) = 1
            /\ data.rate.shape = data.ne.shape \o data.te.shape

StoredRecord(i, j) ==
    LET a == call.rates[i].addr
        t == call.rates[i].trans[j]
    IN  IF section \in valid_classes
        THEN Validate(Data(call.rates, <<lower(a[1]), a[2], a[3]>>, t.transition)).value
        ELSE Validate(t.data).value

\* new is old merged with every transition of the i-th address
MergedWithAll(old, new, i) ==
    /\ new.kind = "json"
    /\ {new.text[n].key : n \in 1..Len(new.text)}
            = {old.text[n].key : n \in 1..Len(old.text)} \cup KeysOf(i)
    /\ \A n \in 1..Len(old.text) :
            old.text[n].key \notin KeysOf(i) =>
                GetItem(new.text, old.text[n].key) = old.text[n].value
    /\ \A j \in 1..Len(call.rates[i].trans) :
            GetItem(new.text, encode_transition(call.rates[i].trans[j].transition))
                = StoredRecord(i, j)

\* C4 as stated: after any update call the document of each address of the
\* request is unchanged or is the previous document merged with all
\* transitions listed for the address
C4_AllOrNothingAsStated ==
    IsUpdate =>
        \A i \in 1..Len(call.rates) :
            LET path == DocumentPath(call.rates[i].addr)
                old == FileAt(before, path)
                new == FileAt(files, path)
            IN  /\ Located(call.rates[i].addr) =>
                        /\ new = old \/ MergedWithAll(old, new, i)
                        /\ (call.failed = i /\ ~Written(path)) => new = old
                /\ Cardinality(Writes(i)) <= 1
                /\ call.failed = i => Writes(i) = {}

\* no other address of the request has the document of the i-th
OwnDocument(i) ==
    \A m \in 1..Len(call.rates) :
        m # i => DocumentPath(call.rates[m].addr) # DocumentPath(call.rates[i].addr)

\* C4: after any update call the document of each address of the request
\* that no other address of the request shares is unchanged or is the
\* previous document merged with all transitions listed for the address; a
\* failing address is not written, and no address is written more than once
C4_AllOrNothing ==
    IsUpdate =>
        \A i \in 1..Len(call.rates) :
            LET path == DocumentPath(call.rates[i].addr)
                old == FileAt(before, path)
                new == FileAt(files, path)
            IN  /\ (Located(call.rates[i].addr) /\ OwnDocument(i)) =>
                        /\ new = old \/ MergedWithAll(old, new, i)
                        /\ call.failed = i => new = old
                /\ Cardinality(Writes(i)) <= 1
                /\ call.failed = i => Writes(i) = {}

C4_Witness ==
    /\ RecordRejected
    /\ Len(call.rates[call.failed].trans) = 2
    /\ Validate(call.rates[call.failed].trans[1].data).ok
    /\ FileAt(before, DocumentPath(call.rates[call.failed].addr)).kind = "json"
    /\ files = before

\* the file a get reads
QueriedFile == FileAt(files, DocumentPath(call.query.addr))

\* C5: a get against a missing file and a get for a key absent from a
\* well-formed document fail with the same not-found error; a get against a
\* file that is no JSON fails with another error and returns no record
C5_NotFoundIsOneKind ==
    IsGet =>
        /\ QueriedFile.kind = "absent" => call.raised = "RuntimeError"
        /\ (/\ QueriedFile.kind = "json"
            /\ ~HasKey(QueriedFile.text, encode_transition(call.query.transition)))
                => call.raised = "RuntimeError"
        /\ QueriedFile.kind = "malformed" =>
                /\ call.raised \notin {"none", "RuntimeError"}
                /\ call.value = <<>>

C5_Witness ==
    /\ IsGet
    /\ QueriedFile.kind = "malformed"
    /\ call.raised = "JSONDecodeError"

\* the texts of the components of a query: symbols, charges, transition
QueryTexts ==
    LET a == call.query.addr
    IN  {format_transition(call.query.transition)}
        \cup (CASE section = "thermal_cx" ->
                    {a[1].symbol, format_int(a[2]), a[3].symbol, format_int(a[4])}
                [] section = "beam_emission" ->
                    {a[1].symbol, a[2].symbol, format_int(a[3])}
                [] OTHER -> {a[1], a[2].symbol, format_int(a[3])})

\* C6: the not-found error of every get carries the class, each species
\* symbol, each charge and the transition of the query
C6_NotFoundNamesAddress ==
    (IsGet /\ call.raised = "RuntimeError") =>
        /\ \E part \in call.message : part.name = "class"
        /\ \A text \in QueryTexts : \E part \in call.message : part.text = text

\* the i-th address was rejected with the given charge error
ChargeRejected(i, why) ==
    call.failed = i /\ call.raised = "ValueError" /\ call.why = why

InRange(element, c) == 0 <= c /\ c <= element.atomic_number

C8_AddressGate ==
    AddressRejected =>
        /\ \A n \in 1..Len(call.io) : call.io[n].entry # call.failed
        /\ Located(call.rates[call.failed].addr) =>
            LET path == DocumentPath(call.rates[call.failed].addr)
            IN  FileAt(files, path) = FileAt(before, path)

C8_Witness ==
    /\ AddressRejected
    /\ call.failed = 2
    /\ files # before

Sorted(text) ==
    \A m, n \in 1..Len(text) : m < n => KeyRank(text[m].key) < KeyRank(text[n].key)

\* C9: the same successful request applied again leaves every document as it
\* is after the first call; a document is written with its keys in order,
\* whatever the order in which they were merged
C9_Idempotent ==
    Succeeded =>
        /\ UpdateFrom(section, Started(files, dirs), call.rates, 1).files = files
        /\ \A path \in DOMAIN files : Sorted(files[path].text)

C9_Witness ==
    /\ Succeeded
    /\ files = before
    /\ Len(call.rates[1].trans) = 2
    /\ KeyRank(encode_transition(call.rates[1].trans[1].transition))
            > KeyRank(encode_transition(call.rates[1].trans[2].transition))

\* C10: when the existing file of an address reached by an update is no JSON,
\* the call ends there with the parse error, the file keeps its content and
\* nothing is written for this or a later address
C10_CorruptIsNotEmpty ==
    IsUpdate =>
        /\ \A i \in 1..Len(call.rates) :
            LET a == call.rates[i].addr
            IN  (/\ Reached(i) /\ Located(a)
                 /\ ~(call.failed = i /\ call.why \in AddressErrors)
                 /\ FileAt(before, DocumentPath(a)).kind = "malformed")
                    => /\ call.failed = i
                       /\ call.raised = "JSONDecodeError"
                       /\ FileAt(files, DocumentPath(a)) = MalformedFile
        /\ call.raised = "JSONDecodeError" =>
                \A n \in 1..Len(call.io) :
                    call.io[n].op # "read" => call.io[n].entry < call.failed

C10_Witness ==
    /\ IsUpdate
    /\ call.raised = "JSONDecodeError"
    /\ call.failed = 1
    /\ Len(call.rates) = 2
    /\ FileAt(files, DocumentPath(call.rates[2].addr)).kind = "json"

\* the arrays a stored record holds, each with the shape of its nested list
StoredArrays(record) ==
    CASE section = "thermal_cx" ->
            [ne |-> np_array(record.ne), te |-> np_array(record.te),
             td |-> np_array(record.td), rate |-> np_array(record.rate)]
      [] section = "beam_emission" ->
            [e |-> np_array(record.e), n |-> np_array(record.n),
             t |-> np_array(record.t), sen |-> np_array(record.sen),
             st |-> np_array(record.st)]
      [] OTHER ->
            [ne |-> np_array(record.ne), te |-> np_array(record.te),
             rate |-> np_array(record.rate)]

\* C11: whatever updates were called on the empty repository, every record
\* of every document has 1-D axes and tables of the lengths of its axes, and
\* every file is the document of an address that passes the address checks
C11_StoredRecordInvariant ==
    \A path \in DOMAIN files :
        /\ \E a \in Addresses(section) :
                Acceptable(section, a) /\ DocumentPath(a) = path
        /\ files[path].kind = "json" =>
                \A n \in 1..Len(files[path].text) :
                    WellShaped(StoredArrays(files[path].text[n].value))

\* C11, the part about the addresses alone
C11_DocumentsAtCheckedAddresses ==
    \A path \in DOMAIN files :
        \E a \in Addresses(section) : Acceptable(section, a) /\ DocumentPath(a) = path

\* the i-th address passes the checks made on it and one of its records is
\* not well-shaped
InvalidPayloadAt(i) ==
    /\ Reached(i)
    /\ Plain(call.rates[i].addr)
    /\ Located(call.rates[i].addr)
    /\ ~(call.failed = i /\ call.why \in AddressErrors)
    /\ \E j \in 1..Len(call.rates[i].trans) : ~WellShaped(call.rates[i].trans[j].data)

\* the call has opened the document of its i-th address for reading
HasRead(i) ==
    \E n \in 1..Len(call.io) : call.io[n].op = "read" /\ call.io[n].entry = i

\* C14 as stated: the value error of an invalid record is raised before the
\* document of its address is read, also when that document cannot be parsed
C14_ValidationPrecedesLoading ==
    IsUpdate =>
        \A i \in 1..Len(call.rates) :
            InvalidPayloadAt(i) =>
                /\ call.failed = i
                /\ call.raised = "ValueError"
                /\ ~HasRead(i)

\* C14: the existing document of an address is read before the records of
\* the address are validated: the value error of an invalid record comes
\* after the read and before anything is created or written for the address,
\* and when the existing file cannot be parsed the call fails with the parse
\* error, not with the value error
C14_LoadingPrecedesValidation ==
    IsUpdate =>
        \A i \in 1..Len(call.rates) :
            InvalidPayloadAt(i) =>
                /\ call.failed = i
                /\ HasRead(i)
                /\ Writes(i) = {}
                /\ \A n \in 1..Len(call.io) :
                        call.io[n].entry = i => call.io[n].op = "read"
                /\ IF FileAt(before, DocumentPath(call.rates[i].addr)).kind = "malformed"
                   THEN call.raised = "JSONDecodeError"
                   ELSE call.raised = "ValueError"

C14_Witness ==
    /\ IsUpdate
    /\ call.failed = 1
    /\ InvalidPayloadAt(1)
    /\ call.raised = "JSONDecodeError"
    /\ FileAt(files, DocumentPath(call.rates[1].addr)) = MalformedFile

\* C17: a get, returning a record or failing, leaves every file and every
\* directory as it is, and the set of the existing documents changes only in
\* an update
C17_GetIsReadOnly ==
    [][/\ (call.op = "none" /\ call'.op \in GetOps) =>
            (files' = files /\ dirs' = dirs)
       /\ DOMAIN files' # DOMAIN files =>
            (call.op = "none" /\ call'.op \in UpdateOps)]_vars

C17_Witness ==
    /\ IsGet
    /\ call.raised = "RuntimeError"
    /\ QueriedFile.kind = "absent"
    /\ DOMAIN files # {}
    /\ files = before

\* the request with its class keys in lower case
LowerCased(rates) ==
    [n \in 1..Len(rates) |-> [rates[n] EXCEPT !.addr[1] = lower(@)]]

\* C18: update_pec_rates treats a request whose class keys differ from the
\* names of the classes in letter case only as it treats the request with
\* the keys in lower case: same outcome, same documents
C18_ClassKeyCaseInsensitive ==
    (/\ call.op = "update_pec_rates"
     /\ \A m, n \in 1..Len(call.rates) :
            m # n => LowerCased(call.rates)[m].addr # LowerCased(call.rates)[n].addr) =>
        LET lowered == UpdateFrom(section, Started(before, {}), LowerCased(call.rates), 1)
        IN  /\ call.raised = lowered.raised
            /\ files = lowered.files

(***************************************************************************)
(* Successful updates one after the other, with the record last supplied   *)
(* for each key of each document written down beside the repository.       *)
(***************************************************************************)
UpdateOpOf(cls) ==
    CASE cls = "thermal_cx" -> "update_pec_thermal_cx_rates"
      [] cls = "beam_emission" -> "update_beam_emission_rates"
      [] OTHER -> "update_pec_rates"

\* the (document, key) pairs a request supplies a record for
SuppliedKeys(rates) ==
    UNION { {<<DocumentPath(rates[n].addr),
               encode_transition(rates[n].trans[j].transition)>> :
                j \in 1..Len(rates[n].trans)} :
            n \in 1..Len(rates) }

SuppliedRecord(rates, k) ==
    LET n == CHOOSE n \in 1..Len(rates) :
                /\ DocumentPath(rates[n].addr) = k[1]
                /\ \E j \in 1..Len(rates[n].trans) :
                        encode_transition(rates[n].trans[j].transition) = k[2]
        j == CHOOSE j \in 1..Len(rates[n].trans) :
                encode_transition(rates[n].trans[j].transition) = k[2]
    IN  rates[n].trans[j].data

\* an update call that returns without raising
SuccessfulUpdate ==
    /\ call.op = "none"
    /\ \E rates \in Requests[section] :
        /\ \A n \in 1..Len(rates) : Plain(rates[n].addr)
        /\ UpdateFrom(section, Started(files, dirs), rates, 1).raised = "none"
        /\ Update(UpdateOpOf(section), rates)
        /\ latest' = [k \in DOMAIN latest \cup SuppliedKeys(rates) |->
                        IF k \in SuppliedKeys(rates) THEN SuppliedRecord(rates, k)
                        ELSE latest[k]]
    /\ UNCHANGED procs

NextSequential == SuccessfulUpdate \/ Return

SpecSequential == Init /\ [][NextSequential]_vars

\* C16: after successful updates of an empty repository, a get returns the
\* record last supplied for the key of its transition at its address, whole,
\* and fails with the not-found error iff none was supplied
C16_RefinesMap ==
    \A a \in Addresses(section) : \A t \in Transitions :
        (Acceptable(section, a) /\ Plain(a)) =>
            LET got == GetRate(files, a, t)
                k == <<DocumentPath(a), encode_transition(t)>>
            IN  IF k \in DOMAIN latest
                THEN got.raised = "none" /\ got.value = latest[k]
                ELSE got.raised = "RuntimeError"

\* C16 for the records none of whose axes is empty
C16_RefinesMapFullAxes ==
    \A a \in Addresses(section) : \A t \in Transitions :
        (Acceptable(section, a) /\ Plain(a)) =>
            LET got == GetRate(files, a, t)
                k == <<DocumentPath(a), encode_transition(t)>>
            IN  IF k \in DOMAIN latest
                THEN /\ got.raised = "none"
                     /\ latest[k] \in FullAxes(section) => got.value = latest[k]
                ELSE got.raised = "RuntimeError"

\* the call made its file operations address after address, in the order of
\* the request, and for each address it went through: one read, then one write
OneAfterTheOther ==
    /\ \A m, n \in 1..Len(call.io) : m < n => call.io[m].entry <= call.io[n].entry
    /\ \A i \in 1..Len(call.rates) :
        (Reached(i) /\ call.failed # i) =>
            \E m, n \in 1..Len(call.io) :
                /\ m < n
                /\ call.io[m] = Event("read", i, DocumentPath(call.rates[i].addr))
                /\ call.io[n] = Event("write", i, DocumentPath(call.rates[i].addr))
                /\ Cardinality(Writes(i)) = 1

\* the document of the i-th address holds every record of the address
HoldsItsRecords(i) ==
    LET new == FileAt(files, DocumentPath(call.rates[i].addr))
    IN  /\ new.kind = "json"
        /\ \A j \in 1..Len(call.rates[i].trans) :
            LET key == encode_transition(call.rates[i].trans[j].transition)
            IN  HasKey(new.text, key) /\ GetItem(new.text, key) = StoredRecord(i, j)

\* the call stopped at its k-th address: nothing but reads for it, nothing at
\* all for the addresses after it
StoppedAt(k) ==
    \A n \in 1..Len(call.io) :
        /\ call.io[n].entry <= k
        /\ call.io[n].entry = k => call.io[n].op = "read"

\* C15 as stated: when the k-th address raises, the documents of the
\* addresses before it hold their merged records and the documents of the
\* k-th and the later addresses are as they were before the call
C15_LaterDocumentsUnchanged ==
    (IsUpdate /\ call.failed > 0) =>
        /\ OneAfterTheOther
        /\ StoppedAt(call.failed)
        /\ \A i \in 1..Len(call.rates) :
            Located(call.rates[i].addr) =>
                IF i < call.failed THEN HoldsItsRecords(i)
                ELSE FileAt(files, DocumentPath(call.rates[i].addr))
                        = FileAt(before, DocumentPath(call.rates[i].addr))

\* C15: the addresses of a call are gone through one after the other in the
\* order of the request, each with its own read and write; when the k-th
\* address raises, the documents of the addresses before it hold their merged
\* records, nothing is created or written for the k-th and the later
\* addresses, and their documents are as they were before the call unless an
\* address before the k-th has the same document
C15_NoCrossAddressTransaction ==
    IsUpdate =>
        /\ OneAfterTheOther
        /\ call.failed > 0 =>
            /\ StoppedAt(call.failed)
            /\ \A i \in 1..Len(call.rates) :
                Located(call.rates[i].addr) =>
                    IF i < call.failed THEN HoldsItsRecords(i)
                    ELSE (\A m \in 1..(call.failed - 1) :
                            DocumentPath(call.rates[m].addr)
                                # DocumentPath(call.rates[i].addr))
                         => FileAt(files, DocumentPath(call.rates[i].addr))
                                = FileAt(before, DocumentPath(call.rates[i].addr))

C15_Witness ==
    /\ IsUpdate
    /\ Len(call.rates) = 2
    /\ call.failed = 2
    /\ HoldsItsRecords(1)
    /\ FileAt(before, DocumentPath(call.rates[1].addr)).kind = "absent"
    /\ Located(call.rates[2].addr)
    /\ FileAt(files, DocumentPath(call.rates[2].addr)).kind = "json"
    /\ DocumentPath(call.rates[2].addr) # DocumentPath(call.rates[1].addr)

(***************************************************************************)
(* Processes calling at the same time.  Two writers call the update        *)
(* function of the rate class and a reader calls its get function, all for *)
(* one address; a step is one file operation of a call together with the   *)
(* computation that follows it in the process.                             *)
(***************************************************************************)
Writers == {"writer 1", "writer 2"}

SharedAddress ==
    CASE section = "thermal_cx" -> <<Hydrogen, 0, Hydrogen, 0>>
      [] section = "beam_emission" -> <<Hydrogen, Hydrogen, 0>>
      [] OTHER -> <<section, Hydrogen, 0>>

SharedPath == DocumentPath(SharedAddress)

\* the requests of the writers: the one address, any of the transitions, each
\* with the same well-shaped record
WriterRequests ==
    {<<[addr |-> SharedAddress, trans |-> l]>> :
        l \in TransitionLists(section, SharedAddress, Transitions,
                              {d \in FullAxes(section) : Validate(d).ok})}

\* add/replace data for a transition, of the update function of the class
MergeRates(rates, content) ==
    CASE section = "thermal_cx" -> MergeThermalCxRates(rates[1].trans, 1, content)
      [] section = "beam_emission" ->
            MergeBeamRates(rates, rates[1].addr, rates[1].trans, 1, content)
      [] OTHER ->
            MergePecRates(rates, <<lower(rates[1].addr[1]), rates[1].addr[2],
                                   rates[1].addr[3]>>, rates[1].trans, 1, content)

\* the number of tokens of the lists of a stored record
RecordLength(record) ==
    CASE section = "thermal_cx" ->
            Len(record.ne) + Len(record.te) + Len(record.td) + Len(record.rate)
      [] section = "beam_emission" ->
            Len(record.e) + Len(record.n) + Len(record.t) + Len(record.sen)
            + Len(record.st) + 4
      [] OTHER -> Len(record.ne) + Len(record.te) + Len(record.rate)

\* the length of the text json.dump writes for a document: it grows with
\* every item and every number
RECURSIVE DumpLength(_)
DumpLength(text) ==
    IF text = <<>> THEN 0
    ELSE 1 + RecordLength(Head(text).value) + DumpLength(Tail(text))

\* open(path, 'w'): the file is created or cut to length zero
Truncated == [kind |-> "malformed", text |-> <<>>]

\* the text of a document written from the start of a file opened with 'w'
\* before: it replaces what the file holds up to its own length, and what
\* another process wrote beyond that length stays, after the end of the
\* document
WrittenFromStart(file, text) ==
    IF DumpLength(file.text) <= DumpLength(text) THEN JsonFile(text)
    ELSE [kind |-> "malformed", text |-> file.text]

\* the repository the processes start on: empty, or after one update
InitConcurrent ==
    /\ section \in Sections
    /\ \E st \in {Started(<<>>, {})}
                 \cup {UpdateFrom(section, Started(<<>>, {}), rates, 1) :
                        rates \in WriterRequests} :
            files = st.files /\ dirs = st.dirs
    /\ before = files
    /\ call = NoCall
    /\ latest = <<>>
    /\ procs = [p \in Processes |-> IdleProcess]

\* the call of the update function: the checks of the address pass
WriterCalls(w) ==
    /\ procs[w].pc = "idle"
    /\ \E rates \in WriterRequests :
        procs' = [procs EXCEPT ![w].pc = "read", ![w].rates = rates]
    /\ UNCHANGED <<section, files, dirs, before, call, latest>>

\* read in any existing rates, then add/replace data for each transition
WriterReads(w) ==
    /\ procs[w].pc = "read"
    /\ LET loaded == LoadExisting(Started(files, dirs), 1, SharedPath)
           merged == MergeRates(procs[w].rates, loaded.content)
       IN  procs' = IF loaded.st.raised # "none"
                    THEN [procs EXCEPT ![w].pc = "done", ![w].raised = loaded.st.raised]
                    ELSE IF merged.raised # "none"
                    THEN [procs EXCEPT ![w].pc = "done", ![w].raised = merged.raised]
                    ELSE [procs EXCEPT ![w].pc = "isdir", ![w].content = merged.content]
    /\ UNCHANGED <<section, files, dirs, before, call, latest>>

\* create directory structure if missing: os.path.isdir(directory), or
\* os.makedirs(directory, exist_ok=True) in update_pec_thermal_cx_rates
WriterChecksDirectory(w) ==
    /\ procs[w].pc = "isdir"
    /\ IF section = "thermal_cx"
       THEN /\ dirs' = dirs \cup {SubSeq(dirname(SharedPath), 1, n) :
                                    n \in 1..Len(dirname(SharedPath))}
            /\ procs' = [procs EXCEPT ![w].pc = "open"]
       ELSE /\ dirs' = dirs
            /\ procs' = [procs EXCEPT ![w].pc =
                            IF dirname(SharedPath) \in dirs THEN "open" ELSE "makedirs"]
    /\ UNCHANGED <<section, files, before, call, latest>>

\* os.makedirs(directory): FileExistsError when the directory exists by now
WriterMakesDirectory(w) ==
    /\ procs[w].pc = "makedirs"
    /\ IF dirname(SharedPath) \in dirs
       THEN /\ dirs' = dirs
            /\ procs' = [procs EXCEPT ![w].pc = "done", ![w].raised = "FileExistsError"]
       ELSE /\ dirs' = dirs \cup {SubSeq(dirname(SharedPath), 1, n) :
                                    n \in 1..Len(dirname(SharedPath))}
            /\ procs' = [procs EXCEPT ![w].pc = "open"]
    /\ UNCHANGED <<section, files, before, call, latest>>

\* write new data: open(path, 'w')
WriterOpens(w) ==
    /\ procs[w].pc = "open"
    /\ files' = WriteFile(files, SharedPath, Truncated)
    /\ procs' = [procs EXCEPT ![w].pc = "dump"]
    /\ UNCHANGED <<section, dirs, before, call, latest>>

\* write new data: json.dump and the close of the file, which writes the text
WriterDumps(w) ==
    /\ procs[w].pc = "dump"
    /\ files' = WriteFile(files, SharedPath,
                    WrittenFromStart(FileAt(files, SharedPath),
                                     json_dump(procs[w].content)))
    /\ procs' = [procs EXCEPT
                    ![w].pc = "done",
                    ![w].stamp = 1 + Cardinality({v \in Writers : procs[v].stamp > 0})]
    /\ UNCHANGED <<section, dirs, before, call, latest>>

\* the get function of the class, for one of the transitions
ReaderGets ==
    /\ procs["reader"].pc = "idle"
    /\ \E t \in Transitions :
        LET got == GetRate(files, SharedAddress, t)
        IN  procs' = [procs EXCEPT !["reader"].pc = "done",
                                   !["reader"].query = [addr |-> SharedAddress,
                                                        transition |-> t],
                                   !["reader"].raised = got.raised,
                                   !["reader"].value = got.value]
    /\ UNCHANGED <<section, files, dirs, before, call, latest>>

NextConcurrent ==
    \/ \E w \in Writers : WriterCalls(w)
    \/ \E w \in Writers : WriterReads(w)
    \/ \E w \in Writers : WriterChecksDirectory(w)
    \/ \E w \in Writers : WriterMakesDirectory(w)
    \/ \E w \in Writers : WriterOpens(w)
    \/ \E w \in Writers : WriterDumps(w)
    \/ ReaderGets

SpecConcurrent == InitConcurrent /\ [][NextConcurrent]_vars

\* both writers are through, and one of them at least has written
WritersDone ==
    /\ \A w \in Writers : procs[w].pc = "done"
    /\ \E w \in Writers : procs[w].stamp > 0

\* the writer that wrote last
LastWriter ==
    CHOOSE w \in Writers : \A v \in Writers : procs[v].stamp <= procs[w].stamp

\* C12: when two processes have updated the same address at the same time,
\* the document is the one the process that wrote last has written: the
\* document it had read merged with its own records
C12_LastWriterWins ==
    WritersDone =>
        FileAt(files, SharedPath) = JsonFile(json_dump(procs[LastWriter].content))

\* C12, the interleaving: both writers have written without an error and a
\* transition of the first to write is not in the document
C12_LostUpdate ==
    /\ \A w \in Writers : procs[w].pc = "done" /\ procs[w].raised = "none"
    /\ FileAt(files, SharedPath).kind = "json"
    /\ \E w \in Writers :
        /\ procs[w].stamp = 1
        /\ \E j \in 1..Len(procs[w].rates[1].trans) :
            ~HasKey(FileAt(files, SharedPath).text,
                    encode_transition(procs[w].rates[1].trans[j].transition))

\* C13: a get at the same time as updates of its address reads a whole
\* document: it returns a record or fails with the not-found error
C13_AtomicDocument ==
    procs["reader"].pc = "done" => procs["reader"].raised \in {"none", "RuntimeError"}

====
